---- MODULE Spec2Model ----
(***************************************************************************)
(* A model of rust/gen-c-headers.py: the scanner that finds the extern "C" *)
(* functions of a Rust source file and writes their C prototypes to a      *)
(* generated header.  Texts are TLA+ strings handled character by          *)
(* character, so that the two regular expressions of convert_type, the     *)
(* findall pattern of gen_headers and the str.split / str.strip calls are  *)
(* modelled by what they do to the text.                                   *)
(***************************************************************************)
EXTENDS Integers, Sequences, FiniteSets, TLC

VARIABLES
    buf,        \* contents of the Rust input file (open(filename).read())
    decls,      \* history: the declarations written into the input file, in order
    out,        \* the output header: absent, or the prototypes it was written with
    inMtime,    \* os.stat(input_filename).st_mtime
    outMtime,   \* os.stat(output_filename).st_mtime (0 while the header is absent)
    res,        \* outcome of the last gen_headers call that read the present contents
    writes,     \* history: times the header was written from the present contents
    rs_type,    \* argument of a direct convert_type call
    ct          \* what that call returned or raised

vars == <<buf, decls, out, inMtime, outMtime, res, writes, rs_type, ct>>

fsVars == <<buf, decls, out, inMtime, outMtime, res, writes>>

ctVars == <<rs_type, ct>>

-----------------------------------------------------------------------------
(* Bounds of the model.                                                    *)

\* declarations written into the input file
MaxDecls == 2

\* distinct modification times
MaxTime == 1

\* modifier tokens chained before a base type in a convert_type argument
MaxModDepth == 2

-----------------------------------------------------------------------------
(* Text primitives of Python used by the script.                           *)

Ch(s, i) == SubSeq(s, i, i)

\* the characters the regex class \s and str.strip() treat as whitespace
Whitespace == {" ", "\t", "\n", "\r", "\f"}

IsSpace(c) == c \in Whitespace

NoSpaceIn(s, lo, hi) == \A i \in lo..hi : ~IsSpace(Ch(s, i))

Min(S) == CHOOSE x \in S : \A y \in S : x <= y

Max(S) == CHOOSE x \in S : \A y \in S : x >= y

\* the first index at or after i that holds no whitespace (Len(s) + 1 if none)
RECURSIVE LStripFrom(_, _)
LStripFrom(s, i) ==
    IF i <= Len(s) /\ IsSpace(Ch(s, i)) THEN LStripFrom(s, i + 1) ELSE i

\* the last index at or before j that holds no whitespace (0 if none)
RECURSIVE RStripTo(_, _)
RStripTo(s, j) ==
    IF j >= 1 /\ IsSpace(Ch(s, j)) THEN RStripTo(s, j - 1) ELSE j

\* str.strip()
Strip(s) ==
    LET i == LStripFrom(s, 1)
        j == RStripTo(s, Len(s))
    IN  IF i > j THEN "" ELSE SubSeq(s, i, j)

\* index of the first occurrence of character c in s at or after i, 0 if none
IndexFrom(s, c, i) ==
    LET at == {k \in i..Len(s) : Ch(s, k) = c}
    IN  IF at = {} THEN 0 ELSE Min(at)

\* str.split(c): the pieces between the occurrences of c (one more than there are)
RECURSIVE Split(_, _)
Split(s, c) ==
    LET k == IndexFrom(s, c, 1)
    IN  IF k = 0 THEN <<s>>
        ELSE <<SubSeq(s, 1, k - 1)>> \o Split(SubSeq(s, k + 1, Len(s)), c)

\* str.split(c, 1): at most one split, at the first occurrence of c
Split1(s, c) ==
    LET k == IndexFrom(s, c, 1)
    IN  IF k = 0 THEN <<s>>
        ELSE <<SubSeq(s, 1, k - 1), SubSeq(s, k + 1, Len(s))>>

\* sep.join(pieces)
RECURSIVE Join(_, _)
Join(pieces, sep) ==
    IF Len(pieces) = 0 THEN ""
    ELSE IF Len(pieces) = 1 THEN pieces[1]
    ELSE pieces[1] \o sep \o Join(Tail(pieces), sep)

-----------------------------------------------------------------------------
(* The type translator.                                                    *)

\* Map of Rust types to C types.
type_map ==
    [ bool |-> "bool", i8 |-> "int8_t", i16 |-> "int16_t", i32 |-> "int32_t",
      i64 |-> "int64_t", u8 |-> "uint8_t", u16 |-> "uint16_t",
      u32 |-> "uint32_t", u64 |-> "uint64_t" ]
    @@ ("libc::c_void" :> "void")
    @@ ("libc::c_char" :> "char")
    @@ ("libc::c_int" :> "int")
    @@ ("c_int" :> "int")
    @@ ("libc::int8_t" :> "int8_t")
    @@ ("libc::uint8_t" :> "uint8_t")
    @@ ("libc::uint16_t" :> "uint16_t")
    @@ ("libc::uint32_t" :> "uint32_t")
    @@ ("libc::uint64_t" :> "uint64_t")
    @@ ("SuricataContext" :> "SuricataContext")
    @@ ("SuricataFileContext" :> "SuricataFileContext")
    @@ ("FileContainer" :> "FileContainer")
    @@ ("core::Flow" :> "Flow")
    @@ ("Flow" :> "Flow")
    @@ ("DNSState" :> "RSDNSState")
    @@ ("DNSTransaction" :> "RSDNSTransaction")
    @@ ("NFSState" :> "NFSState")
    @@ ("NFSTransaction" :> "NFSTransaction")
    @@ ("NTPState" :> "NTPState")
    @@ ("NTPTransaction" :> "NTPTransaction")
    @@ ("TFTPTransaction" :> "TFTPTransaction")
    @@ ("TFTPState" :> "TFTPState")
    @@ ("JsonT" :> "json_t")
    @@ ("DetectEngineState" :> "DetectEngineState")
    @@ ("core::DetectEngineState" :> "DetectEngineState")
    @@ ("core::AppLayerDecoderEvents" :> "AppLayerDecoderEvents")
    @@ ("AppLayerDecoderEvents" :> "AppLayerDecoderEvents")
    @@ ("core::AppLayerEventType" :> "AppLayerEventType")
    @@ ("AppLayerEventType" :> "AppLayerEventType")
    @@ ("CLuaState" :> "lua_State")
    @@ ("Store" :> "Store")
    @@ ("AppProto" :> "AppProto")

InTypeMap(t) == t \in DOMAIN type_map

\* where the final $ of a pattern without re.M can stand: at the end of the
\* string, or just before a newline that ends it
DollarEnds(s) ==
    {Len(s)} \cup (IF Len(s) >= 1 /\ Ch(s, Len(s)) = "\n" THEN {Len(s) - 1} ELSE {})

\* re.match("^[^\s]+$", rs_type)
MatchBare(s) ==
    \E e \in DollarEnds(s) : e >= 1 /\ NoSpaceIn(s, 1, e)

\* re.match("^(.*)(\s[^\s]+)$", rs_type): the places <<p, e>> at which it can
\* match, group 1 being s[1..p-1] (no newline: "." without re.DOTALL) and
\* group 2 being s[p..e] (one whitespace character, then no whitespace)
ModSplits(s) ==
    {pe \in (1..Len(s)) \X DollarEnds(s) :
        /\ pe[1] < pe[2]
        /\ IsSpace(Ch(s, pe[1]))
        /\ NoSpaceIn(s, pe[1] + 1, pe[2])
        /\ \A i \in 1..(pe[1] - 1) : Ch(s, i) # "\n"}

Ok(v) == [kind |-> "ok", val |-> v]

Raise(k, v) == [kind |-> k, val |-> v]

\* Decorate with the const qualifier of a const pointer lost
DecorateDropsConst(mod, ctype) ==
    IF mod \in {"*mut", "* mut", "&mut", "&'static mut", "*const", "* const"}
        THEN Ok(ctype \o " *")
    ELSE IF mod \in {"*mut *const", "*mut*const"}
        THEN Ok(ctype \o " **")
    ELSE Raise("UnknownModifier", mod)

\* lines 108-125: the decoration a modifier spelling selects
Decorate(mod, ctype) ==
    IF mod \in {"*mut", "* mut", "&mut", "&'static mut"}
        THEN Ok(ctype \o " *")
    ELSE IF mod \in {"*const", "* const"}
        THEN Ok("const " \o ctype \o " *")
    ELSE IF mod \in {"*mut *const", "*mut*const"}
        THEN Ok(ctype \o " **")
    ELSE Raise("UnknownModifier", mod)

convert_type(s) ==
    IF MatchBare(s) /\ InTypeMap(s) THEN Ok(type_map[s])
    ELSE IF ModSplits(s) # {} THEN
        LET pe == CHOOSE x \in ModSplits(s) : TRUE
            mod == Strip(SubSeq(s, 1, pe[1] - 1))
            rtype == Strip(SubSeq(s, pe[1], pe[2]))
        IN  IF InTypeMap(rtype) THEN Decorate(mod, type_map[rtype])
            ELSE Raise("UnknownType", rtype)
    ELSE Raise("ParseFailure", s)

-----------------------------------------------------------------------------
(* The signature extractor: re.findall of                                  *)
(*   ^pub (unsafe )?extern "C" fn ([A_Za-z0-9_]+)\(([^{]+)?\)(\s+-> ([^{]+))? *)
(* under re.M | re.DOTALL.                                                 *)

Lower ==
    {"a", "b", "c", "d", "e", "f", "g", "h", "i", "j", "k", "l", "m",
     "n", "o", "p", "q", "r", "s", "t", "u", "v", "w", "x", "y", "z"}

Digits == {"0", "1", "2", "3", "4", "5", "6", "7", "8", "9"}

\* the character class [A_Za-z0-9_]: "A", "_", "Z", a-z, 0-9, "_"
NameChar(c) == c \in {"A", "_", "Z"} \cup Lower \cup Digits

\* the literal lit stands in s at position i
StartsAt(s, i, lit) ==
    /\ i + Len(lit) - 1 <= Len(s)
    /\ SubSeq(s, i, i + Len(lit) - 1) = lit

\* ^ under re.M
LineStart(s, i) == i = 1 \/ Ch(s, i - 1) = "\n"

\* end of the longest run of name characters from i (the first index past it)
RECURSIVE NameEnd(_, _)
NameEnd(s, i) ==
    IF i <= Len(s) /\ NameChar(Ch(s, i)) THEN NameEnd(s, i + 1) ELSE i

\* end of the longest run of [^{] from i (the first "{", or one past the end)
BraceFrom(s, i) ==
    LET k == IndexFrom(s, "{", i) IN IF k = 0 THEN Len(s) + 1 ELSE k

\* the last ")" of s in lo..hi, 0 if none: where the greedy ([^{]+)? gives back to
LastParen(s, lo, hi) ==
    Max({k \in lo..hi : Ch(s, k) = ")"} \cup {0})

NoMatch == [matched |-> FALSE]

\* the match of the pattern that starts at position i of s, if there is one:
\* groups 2, 3 and 5 (an absent group is "") and the position after the match
MatchAt(s, i) ==
    IF ~(LineStart(s, i) /\ StartsAt(s, i, "pub ")) THEN NoMatch
    ELSE
    LET e == IF StartsAt(s, i + 4, "unsafe ") THEN i + 11 ELSE i + 4
        n == e + 14
        ne == NameEnd(s, n)
    IN  IF ~(StartsAt(s, e, "extern \"C\" fn ") /\ ne > n /\ StartsAt(s, ne, "("))
        THEN NoMatch
        ELSE
        LET q == ne + 1
            r == BraceFrom(s, q)
            j == LastParen(s, q, r - 1)
            w == LStripFrom(s, j + 1)
            hasRet == w > j + 1 /\ StartsAt(s, w, "-> ") /\ w + 3 < r
        IN  IF j = 0 THEN NoMatch
            ELSE [matched |-> TRUE,
                  name |-> SubSeq(s, n, ne - 1),
                  params |-> SubSeq(s, q, j - 1),
                  ret |-> IF hasRet THEN SubSeq(s, w + 3, r - 1) ELSE "",
                  end |-> IF hasRet THEN r ELSE j + 1]

\* FindAll keeping one match per function name, the first
RECURSIVE FindAllUniqueNames(_, _)
FindAllUniqueNames(s, i) ==
    LET starts == {k \in i..Len(s) : MatchAt(s, k).matched}
    IN  IF starts = {} THEN <<>>
        ELSE LET m == MatchAt(s, Min(starts))
                 rest == FindAllUniqueNames(s, m.end)
             IN  <<m>> \o SelectSeq(rest, LAMBDA x : x.name # m.name)

\* re.findall: the matches from left to right, none overlapping; each search
\* resumes where the match before it ended
RECURSIVE FindAll(_, _)
FindAll(s, i) ==
    LET starts == {k \in i..Len(s) : MatchAt(s, k).matched}
    IN  IF starts = {} THEN <<>>
        ELSE LET m == MatchAt(s, Min(starts))
             IN  <<m>> \o FindAll(s, m.end)

-----------------------------------------------------------------------------
(* gen_headers: one prototype line per match.                              *)

\* RenderArg without the test for the placeholder name
RenderArgAlwaysNamed(c_type, arg_name) == c_type \o " " \o arg_name

\* lines 183-186: one entry of the argument list
RenderArg(c_type, arg_name) ==
    IF arg_name # "_" THEN c_type \o " " \o arg_name ELSE c_type

\* lines 175-186: the loop over fn[2].split(","); args is the list so far
RECURSIVE RenderArgs(_, _)
RenderArgs(pieces, args) ==
    IF pieces = <<>> THEN [kind |-> "ok", args |-> args]
    ELSE LET arg == Head(pieces)
             parts == Split1(arg, ":")
         IN  IF arg = "" THEN RenderArgs(Tail(pieces), args)
             ELSE IF Len(parts) # 2 THEN [kind |-> "ValueError", args |-> args]
             ELSE LET c == convert_type(Strip(parts[2]))
                  IN  IF c.kind # "ok" THEN [kind |-> c.kind, args |-> args]
                      ELSE RenderArgs(Tail(pieces),
                                      Append(args, RenderArg(c.val, Strip(parts[1]))))

\* ArgList without the "void" of an empty list
ArgListNoVoid(args) == args

\* lines 188-189
ArgList(args) == IF args = <<>> THEN <<"void">> ELSE args

\* lines 171-197: the body of the loop for one match fn
RenderFn(fn) ==
    LET a == RenderArgs(Split(fn.params, ","), <<>>)
        retType == Strip(fn.ret)
        returns == IF retType = "" THEN Ok("void") ELSE convert_type(retType)
    IN  IF a.kind # "ok" THEN Raise(a.kind, "")
        ELSE IF returns.kind # "ok" THEN Raise(returns.kind, "")
        ELSE Ok(returns.val \o " " \o fn.name \o "("
                    \o Join(ArgList(a.args), ", ") \o ");\n")

\* RenderAll with a function that fails to translate logged and skipped
RECURSIVE RenderAllSkipsFailures(_, _)
RenderAllSkipsFailures(fns, writer) ==
    IF fns = <<>> THEN Ok(writer)
    ELSE LET l == RenderFn(Head(fns))
         IN  IF l.kind # "ok" THEN RenderAllSkipsFailures(Tail(fns), writer)
             ELSE RenderAllSkipsFailures(Tail(fns), writer \o l.val)

\* lines 163-197: writer after the loop over the matches, or the exception
\* that left the loop
RECURSIVE RenderAll(_, _)
RenderAll(fns, writer) ==
    IF fns = <<>> THEN Ok(writer)
    ELSE LET l == RenderFn(Head(fns))
         IN  IF l.kind # "ok" THEN l
             ELSE RenderAll(Tail(fns), writer \o l.val)

Generate(text) == RenderAll(FindAll(text, 1), "")

\* the output header: not there, or template % {"prototypes": p, "name": ...}
\* (the template and the name are the same at every write of the one header)
Absent == [exists |-> FALSE, prototypes |-> ""]

Header(p) == [exists |-> TRUE, prototypes |-> p]

\* Written with the header opened for appending
WrittenAppending(prototypes) == Header(out.prototypes \o prototypes)

\* lines 203-208: the header after open(output_filename, "w") and the write
Written(prototypes) == Header(prototypes)

should_regen ==
    \/ ~out.exists
    \/ inMtime > outMtime

\* the times a file written now can get: not before any time already stamped
Now == {t \in 0..MaxTime : t >= inMtime /\ t >= outMtime}

GenHeaders ==
    IF ~should_regen THEN UNCHANGED vars
    ELSE LET g == Generate(buf)
         IN  IF g.kind # "ok" THEN
                 /\ res' = g.kind
                 /\ UNCHANGED <<buf, decls, out, inMtime, outMtime, writes, ctVars>>
             ELSE IF g.val = "" THEN
                 /\ res' = "nomatch"
                 /\ UNCHANGED <<buf, decls, out, inMtime, outMtime, writes, ctVars>>
             ELSE
                 /\ out' = Written(g.val)
                 /\ outMtime' \in Now
                 /\ res' = "written"
                 /\ writes' = writes + 1
                 /\ UNCHANGED <<buf, decls, inMtime, ctVars>>

-----------------------------------------------------------------------------
(* The input file.  It is written one declaration at a time; each          *)
(* declaration is kept in decls as it was meant, and in buf as Rust text.  *)

P(n, t) == [name |-> n, type |-> t]

D(pre, name, params, style, ret) ==
    [pre |-> pre, name |-> name, params |-> params, style |-> style, ret |-> ret]

DeclShapes ==
    { D("pub ", "rs_init", <<>>, "inline", ""),
      D("pub unsafe ", "rs_dns_state_new", <<>>, "inline", "*mut libc::c_void"),
      D("pub ", "rs_log", <<P("ctx", "&mut SuricataContext"), P("_", "u32"),
                            P("msg", "*const libc::c_char")>>, "inline", "i8"),
      D("pub ", "rs_DNS_probe", <<P("flow", "*const Flow")>>, "inline", "u8"),
      D("pub ", "AZ_09", <<>>, "inline", ""),
      D("pub ", "rs_len", <<P("n", "usize")>>, "inline", ""),
      D("pub ", "rs_argv", <<P("argv", "*mut *mut u8")>>, "inline", "c_int"),
      D("pub ", "rs_free", <<P("_", "*mut Foo")>>, "inline", ""),
      D("pub ", "rs_tx_get", <<P("state", "&mut NFSState"), P("tx_id", "u64")>>,
        "multiline", "*mut NFSTransaction"),
      D("pub ", "rs_tx_free", <<P("state", "&mut NFSState"), P("tx_id", "u64")>>,
        "trailing", ""),
      D("pub ", "rs_noargs", <<>>, "spaced", ""),
      D("pub ", "rs_pad", <<P("_", "* const u8"), P("len", "u32")>>, "spaced", "bool"),
      D("pub ", "rs_size", <<P("buf", "*const u8")>>, "inline", "usize"),
      D("pub unsafe ", "rs_printf", <<P("fmt", "*const libc::c_char")>>, "variadic", ""),
      D("", "rs_private", <<P("x", "u8")>>, "inline", "u8") }

ParamItems(d) == [i \in 1..Len(d.params) |-> d.params[i].name \o ": " \o d.params[i].type]

ParamText(d) ==
    CASE d.style = "inline" -> Join(ParamItems(d), ", ")
      [] d.style = "spaced" -> " " \o Join(ParamItems(d), ", ") \o " "
      [] d.style = "multiline" -> "\n    " \o Join(ParamItems(d), ",\n    ") \o "\n"
      [] d.style = "trailing" -> "\n    " \o Join(ParamItems(d), ",\n    ") \o ",\n"
      [] d.style = "variadic" -> Join(ParamItems(d), ", ") \o ", ..."

DeclText(d) ==
    d.pre \o "extern \"C\" fn " \o d.name \o "(" \o ParamText(d) \o ")"
        \o (IF d.ret = "" THEN "" ELSE " -> " \o d.ret) \o " {\n}\n"

\* the input file is edited: a declaration is added at its end
AppendDecl(d) ==
    /\ Len(decls) < MaxDecls
    /\ buf' = buf \o DeclText(d)
    /\ decls' = Append(decls, d)
    /\ inMtime' \in Now
    /\ res' = "none"
    /\ writes' = 0
    /\ UNCHANGED <<out, outMtime, ctVars>>

\* the input file is touched: a later modification time, the same contents
Touch ==
    /\ inMtime' \in Now
    /\ inMtime' > inMtime
    /\ UNCHANGED <<buf, decls, out, outMtime, res, writes, ctVars>>

InitFS ==
    /\ buf = ""
    /\ decls = <<>>
    /\ out = Absent
    /\ inMtime = 0
    /\ outMtime = 0
    /\ res = "none"
    /\ writes = 0

Pending == [kind |-> "pending", val |-> ""]

Init ==
    /\ InitFS
    /\ rs_type = ""
    /\ ct = Pending

Next ==
    \/ \E d \in DeclShapes : AppendDecl(d)
    \/ Touch
    \/ GenHeaders

Spec == Init /\ [][Next]_vars

-----------------------------------------------------------------------------
(* Direct calls of convert_type: the argument is drawn from the type       *)
(* expressions below and the call is one step.                             *)

\* the eight modifier spellings convert_type tests for
RecognizedMods ==
    {"*mut", "* mut", "&mut", "&'static mut", "*const", "* const",
     "*mut *const", "*mut*const"}

ModTokens == {"*mut", "* mut", "&mut", "&'static mut", "*const", "* const"}

ModJoins == {"", " ", "\n"}

\* modifier prefixes of at most n chained tokens (the empty prefix included)
RECURSIVE ModChains(_)
ModChains(n) ==
    IF n = 0 THEN {""}
    ELSE LET shorter == ModChains(n - 1)
         IN  shorter \cup ModTokens
                \cup {m \o j \o t : m \in shorter \ {""}, j \in ModJoins, t \in ModTokens}

UnknownBases == {"usize", "Foo", "libc::size_t", "u"}

Bases == DOMAIN type_map \cup UnknownBases

OddInputs == {"", " ", "u8 ", "u8\n", " u8", "*mut u8\n", "*mut  u8"}

TypeInputs ==
    Bases
        \cup {m \o sep \o b : m \in ModChains(MaxModDepth), sep \in {" ", "\n"}, b \in Bases}
        \cup OddInputs

InitCT ==
    /\ InitFS
    /\ rs_type \in TypeInputs
    /\ ct = Pending

ConvertType ==
    /\ ct = Pending
    /\ ct' = convert_type(rs_type)
    /\ UNCHANGED <<rs_type, fsVars>>

NextCT == ConvertType

SpecCT == InitCT /\ [][NextCT]_vars

-----------------------------------------------------------------------------
(* What the properties below read off the declarations that were written   *)
(* and off the header.                                                     *)

Upper ==
    {"A", "B", "C", "D", "E", "F", "G", "H", "I", "J", "K", "L", "M",
     "N", "O", "P", "Q", "R", "S", "T", "U", "V", "W", "X", "Y", "Z"}

\* an identifier of ASCII letters of either case, digits and underscores
IsIdent(name) ==
    /\ name # ""
    /\ \A i \in 1..Len(name) : Ch(name, i) \in Upper \cup Lower \cup Digits \cup {"_"}

\* the declaration has the exported shape: pub [unsafe ]extern "C" fn at a line start
Exported(d) == d.pre \in {"pub ", "pub unsafe "}

\* the declaration is one the scan matches
DeclMatched(d) ==
    /\ Exported(d)
    /\ \A i \in 1..Len(d.name) : NameChar(Ch(d.name, i))

MatchedDecls == SelectSeq(decls, DeclMatched)

TranslationErrors == {"UnknownType", "UnknownModifier", "ParseFailure"}

Translates(t) == convert_type(t).kind = "ok"

\* some type of the declaration, of a parameter or of the return, does not translate
HasBadType(d) ==
    \/ \E i \in 1..Len(d.params) : ~Translates(d.params[i].type)
    \/ d.ret # "" /\ ~Translates(d.ret)

\* the lines of a prototypes text, each without the newline that ends it
LinesOf(p) ==
    LET pieces == Split(p, "\n") IN SubSeq(pieces, 1, Len(pieces) - 1)

\* the prototype lines gen_headers made of the present contents of the input
CurrentLines == IF res = "written" THEN LinesOf(out.prototypes) ELSE <<>>

\* "<returns> <name>(<args>);" taken apart
ParenOf(l) == IndexFrom(l, "(", 1)

NameStartOf(l) == Max({k \in 1..ParenOf(l) : Ch(l, k) = " "}) + 1

NameOfLine(l) == SubSeq(l, NameStartOf(l), ParenOf(l) - 1)

ReturnsOfLine(l) == SubSeq(l, 1, NameStartOf(l) - 2)

ArgsOfLine(l) == SubSeq(l, ParenOf(l) + 1, Len(l) - 2)

\* the entry a parameter is meant to give
ExpectedEntry(p) ==
    IF p.name = "_" THEN convert_type(p.type).val
    ELSE convert_type(p.type).val \o " " \o p.name

ExpectedEntries(d) == [i \in 1..Len(d.params) |-> ExpectedEntry(d.params[i])]

-----------------------------------------------------------------------------
(* C1: while the input file holds an extracted function one of whose       *)
(* parameter or return types convert_type fails on, no call of gen_headers *)
(* creates or modifies the output header, whatever translated before it.   *)
C1_FailureLeavesHeaderUntouched ==
    [][(buf' = buf /\ \E i \in 1..Len(MatchedDecls) : HasBadType(MatchedDecls[i]))
            => (out' = out /\ outMtime' = outMtime)]_vars

\* a call failed on the second function, after the first had translated, with
\* a header of an earlier run in place
C1_Witness ==
    /\ res \in TranslationErrors
    /\ Len(MatchedDecls) = 2
    /\ ~HasBadType(MatchedDecls[1])
    /\ HasBadType(MatchedDecls[2])
    /\ out.exists

\* the decoration each recognized modifier is meant to give the C type t
C2_Template(m, t) ==
    CASE m \in {"*mut", "* mut", "&mut", "&'static mut"} -> t \o " *"
      [] m \in {"*const", "* const"} -> "const " \o t \o " *"
      [] m \in {"*mut *const", "*mut*const"} -> t \o " **"

(* C2: convert_type of a key of type_map is its value, and of a recognized *)
(* modifier, a space and a key is the value decorated by the modifier's    *)
(* template: "T *", "const T *" or "T **".                                 *)
C2_TableRoundTrip ==
    ct # Pending =>
        /\ InTypeMap(rs_type) => ct = Ok(type_map[rs_type])
        /\ \A m \in RecognizedMods, k \in DOMAIN type_map :
                rs_type = m \o " " \o k => ct = Ok(C2_Template(m, type_map[k]))

C2_Witness ==
    /\ rs_type = "* const libc::c_char"
    /\ ct = Ok("const char *")

\* the argument is a single token: not empty, no whitespace
C3_BareToken ==
    /\ rs_type # ""
    /\ NoSpaceIn(rs_type, 1, Len(rs_type))

(* C3: convert_type of one bare token that is no key of type_map fails     *)
(* with the Unknown type error.                                            *)
C3_BareUnknownIsUnknownType ==
    (ct # Pending /\ C3_BareToken /\ ~InTypeMap(rs_type)) => ct.kind = "UnknownType"

\* the argument split at its last whitespace: modifier prefix, base-type suffix
C4_LastSpace == Max({k \in 1..Len(rs_type) : IsSpace(Ch(rs_type, k))} \cup {0})

C4_Suffix == SubSeq(rs_type, C4_LastSpace + 1, Len(rs_type))

C4_Prefix == Strip(SubSeq(rs_type, 1, C4_LastSpace - 1))

(* C4: convert_type of a modifier-prefixed type fails with Unknown modifier *)
(* when the text after the last whitespace is a key of type_map and the    *)
(* prefix is none of the eight spellings, and with Unknown type when that  *)
(* text is no key.                                                         *)
C4_ModifierErrors ==
    (ct # Pending /\ C4_LastSpace > 0 /\ C4_Suffix # "") =>
        IF InTypeMap(C4_Suffix)
        THEN C4_Prefix \notin RecognizedMods => ct.kind = "UnknownModifier"
        ELSE ct.kind = "UnknownType"

(* C5: the only failures of gen_headers are the three translation errors   *)
(* of convert_type; splitting a matched parameter list never raises.       *)
C5_OnlyTranslationErrors ==
    res \in {"none", "written", "nomatch"} \cup TranslationErrors

(* C6: every exported declaration whose name is an identifier of ASCII     *)
(* letters, digits and underscores yields a prototype line with that name. *)
C6_EveryIdentifierExtracted ==
    res \in {"written", "nomatch"} =>
        \A i \in 1..Len(decls) :
            (Exported(decls[i]) /\ IsIdent(decls[i].name)) =>
                \E j \in 1..Len(CurrentLines) : NameOfLine(CurrentLines[j]) = decls[i].name

(* C7: when all types translate, the prototypes are exactly one line per   *)
(* matched declaration, in source order, duplicates kept.                  *)
C7_OneLinePerMatchInOrder ==
    res \in {"written", "nomatch"} =>
        /\ Len(CurrentLines) = Len(MatchedDecls)
        /\ \A i \in 1..Len(MatchedDecls) : NameOfLine(CurrentLines[i]) = MatchedDecls[i].name

\* two lines for a function declared twice
C7_Witness ==
    /\ res = "written"
    /\ Len(MatchedDecls) = 2
    /\ MatchedDecls[1].name = MatchedDecls[2].name
    /\ Len(CurrentLines) = 2

(* C8: the argument list of a declaration with k parameters has k entries  *)
(* in parameter order, "<type>" alone for the placeholder name "_" and     *)
(* "<type> <name>" otherwise, name and type split at the first colon.      *)
C8_ArgumentList ==
    res = "written" =>
        \A i \in 1..Len(MatchedDecls) :
            Len(MatchedDecls[i].params) > 0 =>
                /\ i <= Len(CurrentLines)
                /\ Split(ArgsOfLine(CurrentLines[i]), ",")
                      = [k \in 1..Len(MatchedDecls[i].params) |->
                            (IF k = 1 THEN "" ELSE " ") \o ExpectedEntries(MatchedDecls[i])[k]]

\* a rendered list with a placeholder parameter and a type that holds "::"
C8_Witness ==
    /\ res = "written"
    /\ \E i \in 1..Len(MatchedDecls) :
        /\ \E k \in 1..Len(MatchedDecls[i].params) : MatchedDecls[i].params[k].name = "_"
        /\ \E k \in 1..Len(MatchedDecls[i].params) :
                MatchedDecls[i].params[k].type = "*const libc::c_char"
        /\ ArgsOfLine(CurrentLines[i]) = "SuricataContext * ctx, uint32_t, const char * msg"

(* C9: an empty parameter list renders as "void", a missing return         *)
(* annotation as the return type "void", and both as "void <name>(void);". *)
C9_VoidMarkers ==
    res = "written" =>
        \A i \in 1..Len(MatchedDecls) :
            /\ i <= Len(CurrentLines)
            /\ MatchedDecls[i].params = <<>> => ArgsOfLine(CurrentLines[i]) = "void"
            /\ MatchedDecls[i].ret = "" => ReturnsOfLine(CurrentLines[i]) = "void"
            /\ (MatchedDecls[i].params = <<>> /\ MatchedDecls[i].ret = "") =>
                    CurrentLines[i] = "void " \o MatchedDecls[i].name \o "(void);"

C9_Witness ==
    /\ res = "written"
    /\ \E i \in 1..Len(MatchedDecls) :
        /\ MatchedDecls[i].params = <<>>
        /\ MatchedDecls[i].ret = ""
        /\ CurrentLines[i] = "void rs_init(void);"

(* C10: once gen_headers has written the header from the present contents  *)
(* of the input, no later call on the same contents changes the header's   *)
(* text, skipped or regenerated; and with no declaration matched no call   *)
(* creates or modifies the header.                                         *)
C10_Idempotent ==
    [][buf' = buf =>
        /\ res = "written" => out' = out
        /\ MatchedDecls = <<>> => (out' = out /\ outMtime' = outMtime)]_vars

\* the header was written a second time from unchanged contents
C10_Witness ==
    /\ writes >= 2
    /\ res = "written"
    /\ out.exists

====
